---------------------------- MODULE Spec2Model ----------------------------
(***************************************************************************)
(* Webotron: deployment of a static website to an S3 bucket.               *)
(*                                                                         *)
(* The module models webotron/bucket.py (BucketManager) and the commands   *)
(* of webotron/webotron.py that drive it.  The storage provider is the     *)
(* environment: its answers to create_bucket, put policy, put website,     *)
(* list_objects_v2 and upload_file are modelled by the operators of the    *)
(* "provider" sections.                                                    *)
(*                                                                         *)
(*   SpecSetup : the setup-bucket command, run repeatedly                  *)
(*   SpecSync  : BucketManager.sync, run repeatedly on one or several      *)
(*               BucketManager objects, with the bucket and the local      *)
(*               tree changing between the runs                            *)
(***************************************************************************)
EXTENDS Integers, Sequences, FiniteSets, TLC

VARIABLES
    owner,      \* provider: bucket name -> "none" | "me" | "other"
    policy,     \* provider: bucket name -> public-read policy present
    website,    \* provider: bucket name -> website configuration present
    objects,    \* provider: bucket name -> (key -> object or NoObject)
    cmd,        \* the running setup-bucket command
    created,    \* history: bucket name -> create_bucket calls that succeeded
    manifest,   \* BucketManager.manifest: key -> ETag or NoEntry
    tree,       \* local file system below the sync root: path -> node
    run,        \* the running BucketManager.sync call
    budget,     \* history: environment changes and sync calls still allowed
    hasher,     \* a file, its ETag by gen_etag, and both before the last edit
    zones,      \* DNS provider: the hosted zones
    records,    \* DNS provider: the resource record sets
    dists,      \* CDN provider: the distributions, in the order of creation
    certs,      \* certificate provider: the domains of the issued certificates
    op          \* the running setup-domain or setup-cdn command

bucketVars == <<owner, policy, website>>
setupVars  == <<cmd, created>>
syncVars   == <<objects, manifest, tree, run, budget>>
hashVars   == <<hasher>>
cdnVars    == <<zones, records, dists, certs, op>>
extraVars  == <<hasher, zones, records, dists, certs, op>>
vars       == <<owner, policy, website, objects, cmd, created, manifest, tree, run, budget,
                hasher, zones, records, dists, certs, op>>

---------------------------------------------------------------------------
(* Bounds *)

\* Largest byte value of a file's content (bytes are 0..MaxByte).
MaxByte == 1
\* Longest file content, in bytes (more than one chunk).
MaxLen == 3
\* setup-bucket commands per behaviour.
MaxRuns == 3
\* sync calls per behaviour.
MaxSyncs == 2
\* Changes made by others (bucket writers, local edits) per behaviour.
MaxChanges == 1
\* setup-domain and setup-cdn commands per behaviour.
MaxCmds == 3
\* Objects per page of list_objects_v2.
PageSize == 2

\* BucketManager.CHUNK_SIZE (8388608 in the source), scaled down.
CHUNK_SIZE == 2

---------------------------------------------------------------------------
(* Python values *)

\* None, the empty string '' and an ETag string: "<hex>" when parts = 0,
\* "<hex>-<parts>" otherwise, hex being a sequence of hexadecimal digits.
PyNone == [kind |-> "None", hex |-> <<>>, parts |-> 0]
PyEmptyStr == [kind |-> "str", hex |-> <<>>, parts |-> 0]
QuotedHex(h) == [kind |-> "etag", hex |-> h, parts |-> 0]
QuotedHexParts(h, n) == [kind |-> "etag", hex |-> h, parts |-> n]

---------------------------------------------------------------------------
(* Hashing: hash_data and gen_etag *)

\* The number of byte values.
Radix == MaxByte + 1

RECURSIVE Pow(_, _)
Pow(b, e) == IF e = 0 THEN 1 ELSE b * Pow(b, e - 1)

\* The value of a byte string read as a number in base Radix.
RECURSIVE Value(_)
Value(s) == IF s = <<>> THEN 0
            ELSE Value(SubSeq(s, 1, Len(s) - 1)) * Radix + s[Len(s)]

\* md5 as a collision-free hash of a byte string: the number whose digits
\* are a leading 1 followed by the string (distinct strings, of any
\* lengths, give distinct numbers).
hash_data(data) == Pow(Radix, Len(data)) + Value(data)

\* hash.hexdigest(): the digest as text, its hexadecimal digits (each
\* written as its value), most significant first.
RECURSIVE hexdigest(_)
hexdigest(h) == IF h < 16 THEN <<h>> ELSE hexdigest(h \div 16) \o <<h % 16>>

\* Width of a raw digest, in bytes: wide enough for the hash of any chunk.
DIGEST_LEN == CHUNK_SIZE + 1

\* hash.digest(): the raw digest, DIGEST_LEN bytes, most significant first.
digest(h) == [i \in 1 .. DIGEST_LEN |-> (h \div Pow(Radix, DIGEST_LEN - i)) % Radix]

Min(a, b) == IF a < b THEN a ELSE b

\* The read loop reading CHUNK_SIZE + 1 bytes at a time.
RECURSIVE ReadChunks_one_more(_)
ReadChunks_one_more(content) ==
    IF content = <<>> THEN <<>>
    ELSE <<SubSeq(content, 1, Min(CHUNK_SIZE + 1, Len(content)))>>
         \o ReadChunks_one_more(SubSeq(content, Min(CHUNK_SIZE + 1, Len(content)) + 1,
                                       Len(content)))

\* The successive results of f.read(CHUNK_SIZE) until it returns b'':
\* full chunks in file order, the last one possibly short.
RECURSIVE ReadChunks(_)
ReadChunks(content) ==
    IF content = <<>> THEN <<>>
    ELSE <<SubSeq(content, 1, Min(CHUNK_SIZE, Len(content)))>>
         \o ReadChunks(SubSeq(content, Min(CHUNK_SIZE, Len(content)) + 1, Len(content)))

\* reduce(lambda x, y: x + y, digests)
RECURSIVE ConcatAll(_)
ConcatAll(ss) == IF ss = <<>> THEN <<>> ELSE Head(ss) \o ConcatAll(Tail(ss))

gen_etag(content) ==
    LET hashes == [i \in 1 .. Len(ReadChunks(content)) |-> hash_data(ReadChunks(content)[i])]
    IN  IF hashes = <<>> THEN PyNone
        ELSE IF Len(hashes) = 1 THEN QuotedHex(hexdigest(hashes[1]))
        ELSE LET digests == [i \in 1 .. Len(hashes) |-> digest(hashes[i])]
                 chunk_hash == hash_data(ConcatAll(digests))
             IN  QuotedHexParts(hexdigest(chunk_hash), Len(hashes))

\* A file whose ETag has not been computed.
NotComputed == [kind |-> "pending", hex |-> <<>>, parts |-> 0]

\* The files: every byte string of at most MaxLen bytes.
Contents == UNION {[1 .. n -> 0 .. MaxByte] : n \in 0 .. MaxLen}

\* etag = self.gen_etag(path) on the file as it is.
Hash ==
    /\ hasher.etag = NotComputed
    /\ hasher' = [hasher EXCEPT !.etag = gen_etag(hasher.content)]
    /\ UNCHANGED <<bucketVars, setupVars, syncVars, cdnVars>>

Edited(content) ==
    [content |-> content, etag |-> NotComputed,
     before |-> hasher.content, etagBefore |-> hasher.etag]

\* The file is edited after its ETag was computed: a byte is appended, the
\* last byte is cut off, or one byte is changed.
AppendByte(b) ==
    /\ hasher.etag # NotComputed
    /\ Len(hasher.content) < MaxLen
    /\ hasher' = Edited(Append(hasher.content, b))
    /\ UNCHANGED <<bucketVars, setupVars, syncVars, cdnVars>>

Truncate ==
    /\ hasher.etag # NotComputed
    /\ hasher.content # <<>>
    /\ hasher' = Edited(SubSeq(hasher.content, 1, Len(hasher.content) - 1))
    /\ UNCHANGED <<bucketVars, setupVars, syncVars, cdnVars>>

ChangeByte(i, b) ==
    /\ hasher.etag # NotComputed
    /\ i \in 1 .. Len(hasher.content)
    /\ hasher.content[i] # b
    /\ hasher' = Edited([hasher.content EXCEPT ![i] = b])
    /\ UNCHANGED <<bucketVars, setupVars, syncVars, cdnVars>>

---------------------------------------------------------------------------
(* Provider: buckets *)

BucketNames == {"b1", "b2", "b3"}

\* The value init_bucket returns when it returns no bucket.
NoBucket == "None"

\* s3.create_bucket(Bucket=name, CreateBucketConfiguration=...): the
\* provider's answer, by who owns the name.
create_bucket(name) ==
    IF owner[name] = "none" THEN "Created"
    ELSE IF owner[name] = "me" THEN "BucketAlreadyOwnedByYou"
    ELSE "BucketAlreadyExists"

\* Policy().put / Website().put are accepted on the caller's own buckets only.
PutAllowed(name) == name \in BucketNames /\ owner[name] = "me"

---------------------------------------------------------------------------
(* BucketManager.init_bucket, set_policy, configure_website *)

\* init_bucket with every rejection of the create call swallowed.
init_bucket_swallow_all(bucket_name) ==
    LET answer == create_bucket(bucket_name)
    IN  IF answer = "Created"
        THEN [raised |-> FALSE, answer |-> answer, ret |-> NoBucket]
        ELSE [raised |-> FALSE, answer |-> answer, ret |-> bucket_name]

\* init_bucket with every rejection of the create call raised.
init_bucket_reraise(bucket_name) ==
    LET answer == create_bucket(bucket_name)
    IN  IF answer = "Created"
        THEN [raised |-> FALSE, answer |-> answer, ret |-> NoBucket]
        ELSE [raised |-> TRUE, answer |-> answer, ret |-> NoBucket]

\* The outcome of init_bucket(bucket_name): whether it raises, the
\* provider's answer to its create call, and the value it returns.  The
\* return statement is inside the except clause, so the path on which the
\* create call succeeds leaves the function without a return value.
init_bucket(bucket_name) ==
    LET answer == create_bucket(bucket_name)
    IN  IF answer = "Created"
        THEN [raised |-> FALSE, answer |-> answer, ret |-> NoBucket]
        ELSE IF answer = "BucketAlreadyOwnedByYou"
        THEN [raised |-> FALSE, answer |-> answer, ret |-> bucket_name]
        ELSE [raised |-> TRUE, answer |-> answer, ret |-> NoBucket]

\* The command's record: where it is (pc), its argument (name), the value
\* init_bucket returned (bucket), the provider's answer to the create call,
\* the provider calls issued so far, how it ended, and, as history, the
\* number of the run, the argument and end of the run before it and the
\* policy and website state when this run began.
IdleCmd == [pc |-> "idle", name |-> NoBucket, bucket |-> NoBucket, answer |-> "",
            calls |-> <<>>, outcome |-> "none", runNo |-> 0,
            prevName |-> NoBucket, prevOutcome |-> "none",
            policy0 |-> policy, website0 |-> website]

\* setup_bucket(bucket) is entered.
SetupBucketBegin(name) ==
    /\ cmd.pc \in {"idle", "exit"}
    /\ cmd.runNo < MaxRuns
    /\ cmd' = [pc |-> "init_bucket", name |-> name, bucket |-> NoBucket, answer |-> "",
               calls |-> <<>>, outcome |-> "none", runNo |-> cmd.runNo + 1,
               prevName |-> cmd.name, prevOutcome |-> cmd.outcome,
               policy0 |-> policy, website0 |-> website]
    /\ UNCHANGED <<bucketVars, created, syncVars, extraVars>>

\* bucket = bucket_manager.init_bucket(bucket)
SetupInitBucket ==
    /\ cmd.pc = "init_bucket"
    /\ LET r == init_bucket(cmd.name)
       IN  /\ owner' = IF r.answer = "Created" THEN [owner EXCEPT ![cmd.name] = "me"] ELSE owner
           /\ created' = IF r.answer = "Created"
                         THEN [created EXCEPT ![cmd.name] = @ + 1] ELSE created
           /\ cmd' = [cmd EXCEPT !.pc = IF r.raised THEN "exit" ELSE "set_policy",
                                 !.outcome = IF r.raised THEN "error" ELSE "none",
                                 !.bucket = r.ret,
                                 !.answer = r.answer,
                                 !.calls = Append(@, "create_bucket")]
    /\ UNCHANGED <<policy, website, syncVars, extraVars>>

\* bucket_manager.set_policy(bucket): reads bucket.name, then puts the policy.
set_policy ==
    /\ cmd.pc = "set_policy"
    /\ IF cmd.bucket = NoBucket
       THEN /\ cmd' = [cmd EXCEPT !.pc = "exit", !.outcome = "error"]
            /\ UNCHANGED policy
       ELSE IF PutAllowed(cmd.bucket)
       THEN /\ policy' = [policy EXCEPT ![cmd.bucket] = TRUE]
            /\ cmd' = [cmd EXCEPT !.pc = "configure_website",
                                  !.calls = Append(@, "put_policy")]
       ELSE /\ cmd' = [cmd EXCEPT !.pc = "exit", !.outcome = "error",
                                  !.calls = Append(@, "put_policy")]
            /\ UNCHANGED policy
    /\ UNCHANGED <<owner, website, created, syncVars, extraVars>>

\* bucket_manager.configure_website(bucket), then the command returns.
configure_website ==
    /\ cmd.pc = "configure_website"
    /\ IF PutAllowed(cmd.bucket)
       THEN /\ website' = [website EXCEPT ![cmd.bucket] = TRUE]
            /\ cmd' = [cmd EXCEPT !.pc = "exit", !.outcome = "ok",
                                  !.calls = Append(@, "put_website")]
       ELSE /\ cmd' = [cmd EXCEPT !.pc = "exit", !.outcome = "error",
                                  !.calls = Append(@, "put_website")]
            /\ UNCHANGED website
    /\ UNCHANGED <<owner, policy, created, syncVars, extraVars>>

---------------------------------------------------------------------------
(* The local tree *)

\* The directory sync is called on, resolved to an absolute path.
Root == <<"home", "site">>

\* Every path that may exist below the root.
Paths == {Root \o <<"a.html">>, Root \o <<"s">>, Root \o <<"s", "b.css">>}

Parent(p) == SubSeq(p, 1, Len(p) - 1)

\* A file's content made of n zero bytes.
Zeros(n) == [i \in 1 .. n |-> 0]

\* The contents local files take: empty, one byte, the longest.
TreeContents == {Zeros(0), Zeros(1), Zeros(MaxLen)}

NoNode == [kind |-> "none", data |-> <<>>]
DirNode == [kind |-> "dir", data |-> <<>>]
FileNode(c) == [kind |-> "file", data |-> c]

\* The trees: a.html is a regular file or absent, s is a directory or
\* absent, s/b.css is a regular file or absent.
Trees ==
    {t \in [Paths -> {NoNode, DirNode} \cup {FileNode(c) : c \in TreeContents}] :
        /\ t[Root \o <<"a.html">>].kind # "dir"
        /\ t[Root \o <<"s">>].kind # "file"
        /\ t[Root \o <<"s", "b.css">>].kind # "dir"
        /\ t[Root \o <<"s", "b.css">>].kind = "file" => t[Root \o <<"s">>].kind = "dir"}

\* target.iterdir(): the entries of directory target.
iterdir(target) == {p \in Paths : Parent(p) = target /\ tree[p].kind # "none"}

is_dir(p) == tree[p].kind = "dir"
is_file(p) == tree[p].kind = "file"

RECURSIVE JoinPath(_)
JoinPath(labels) ==
    IF Len(labels) = 1 THEN labels[1]
    ELSE labels[1] \o "/" \o JoinPath(Tail(labels))

\* p.name in place of the relative path.
relative_to_name(p, root) == p[Len(p)]

\* str(p.relative_to(root)): the labels of p after those of root, joined by "/".
relative_to(p, root) == JoinPath(SubSeq(p, Len(root) + 1, Len(p)))

\* guess_type(key)[0] or 'text/plain'
content_type(key) ==
    IF key \in {"a.html"} THEN "text/html"
    ELSE IF key \in {"s/b.css", "b.css"} THEN "text/css"
    ELSE "text/plain"

---------------------------------------------------------------------------
(* Provider: objects *)

\* Keys in the order list_objects_v2 returns them (UTF-8 binary order).
KeyOrder == <<"a.html", "b.css", "s", "s/b.css", "z.txt">>

\* What other writers store: under a key that a local file may have and
\* under one that no local file has, one byte or the longest content.
ExternalKeys == {"a.html", "z.txt"}
ExternalContents == {Zeros(1), Zeros(MaxLen)}

Get(f, k, default) == IF k \in DOMAIN f THEN f[k] ELSE default
Put(f, k, v) == (k :> v) @@ f
Remove(f, k) == [x \in DOMAIN f \ {k} |-> f[x]]

\* The ETag of an object stored by a single put: the md5 of its bytes.
PutObjectETag(data) == QuotedHex(hexdigest(hash_data(data)))

\* The ETag of an object stored by a multipart upload in parts of CHUNK_SIZE.
MultipartETag(data) ==
    LET parts == ReadChunks(data)
        digests == [i \in 1 .. Len(parts) |-> digest(hash_data(parts[i]))]
    IN  QuotedHexParts(hexdigest(hash_data(ConcatAll(digests))), Len(parts))

\* bucket.upload_file(..., Config=self.transfer_config): the transfer is a
\* multipart upload when the file has at least multipart_threshold bytes,
\* a single put otherwise.
TransferETag(data) ==
    IF Len(data) >= CHUNK_SIZE THEN MultipartETag(data) ELSE PutObjectETag(data)

RECURSIVE SelectKeys(_, _)
SelectKeys(order, present) ==
    IF order = <<>> THEN <<>>
    ELSE (IF Head(order) \in present THEN <<Head(order)>> ELSE <<>>)
         \o SelectKeys(Tail(order), present)

RECURSIVE Paginate(_)
Paginate(keys) ==
    IF Len(keys) <= PageSize THEN <<keys>>
    ELSE <<SubSeq(keys, 1, PageSize)>> \o Paginate(SubSeq(keys, PageSize + 1, Len(keys)))

\* paginator.paginate(Bucket=name): the pages of the listing, each a
\* sequence of keys; an empty bucket lists as one page without contents.
ListPages(name) == Paginate(SelectKeys(KeyOrder, DOMAIN objects[name]))

---------------------------------------------------------------------------
(* BucketManager: the manifest, upload_file, sync *)

\* page.get('Contents', []): key -> ETag for the objects of one page.
PageEntries(bucket, page) ==
    [k \in {page[i] : i \in 1 .. Len(page)} |-> objects[bucket][k].etag]

\* One page of load_manifest: self.manifest[obj['Key']] = obj['ETag'] for
\* every object of the page; the entries already there stay.
load_manifest(mf, bucket, page) == PageEntries(bucket, page) @@ mf

\* upload_file with manifest.get(key) in place of manifest.get(key, '').
upload_file_default_none(mf, data, key) ==
    [skip |-> Get(mf, key, PyNone) = gen_etag(data), content_type |-> content_type(key)]

\* upload_file up to its return or its call of bucket.upload_file.
upload_file(mf, data, key) ==
    [skip |-> Get(mf, key, PyEmptyStr) = gen_etag(data), content_type |-> content_type(key)]

\* The sync call's record: where it is (pc), its target (bucket), the pages
\* of the listing not read yet, the frames of handle_directory (each with
\* the entries of its directory not handled yet) and, as history, what the
\* listing of this call returned (listed), the upload_file calls made and
\* what each did (calls), the number of pages read (fetched), and whether the call repeats a completed sync of
\* the same bucket with nothing changed in between (repeat).
IdleRun == [pc |-> "idle", bucket |-> NoBucket, pages |-> <<>>, listed |-> <<>>,
            fetched |-> 0, stack |-> <<>>, calls |-> <<>>, repeat |-> FALSE]

AtRest == run.pc \in {"idle", "done", "aborted"}

\* cli(): a new process builds a new BucketManager (self.manifest = {}).
cli ==
    /\ AtRest
    /\ manifest # <<>> \/ run # IdleRun
    /\ manifest' = <<>>
    /\ run' = IdleRun
    /\ UNCHANGED <<bucketVars, setupVars, extraVars, objects, tree, budget>>

\* sync(pathname, bucket_name) is entered on the current BucketManager.  An
\* exception that ended an earlier call has ended the process: only a new
\* process calls sync again.
SyncBegin(bucket_name) ==
    /\ run.pc \in {"idle", "done"}
    /\ budget.syncs < MaxSyncs
    /\ run' = [pc |-> "load_manifest", bucket |-> bucket_name,
               pages |-> IF owner[bucket_name] = "me" THEN ListPages(bucket_name) ELSE <<>>,
               listed |-> <<>>, fetched |-> 0, stack |-> <<>>, calls |-> <<>>,
               repeat |-> budget.settled = bucket_name]
    /\ budget' = [budget EXCEPT !.syncs = @ + 1, !.settled = NoBucket]
    /\ UNCHANGED <<bucketVars, setupVars, extraVars, objects, manifest, tree>>

\* The loop over the pages ends at the first page.
LastPage_first(pages) == TRUE

\* for page in paginator.paginate(Bucket=bucket.name): the loop ends with
\* the page after which the paginator has none.
LastPage(pages) == Tail(pages) = <<>>

\* self.load_manifest(bucket): one page of the paginator; after the last
\* page, handle_directory(root) is entered.
LoadManifestPage ==
    /\ run.pc = "load_manifest"
    /\ IF owner[run.bucket] # "me"
       THEN /\ run' = [run EXCEPT !.pc = "aborted"]
            /\ UNCHANGED manifest
       ELSE /\ manifest' = load_manifest(manifest, run.bucket, Head(run.pages))
            /\ run' = [run EXCEPT
                         !.listed = PageEntries(run.bucket, Head(run.pages)) @@ @,
                         !.pages = Tail(@),
                         !.fetched = @ + 1,
                         !.pc = IF LastPage(run.pages) THEN "walk" ELSE "load_manifest",
                         !.stack = IF LastPage(run.pages)
                                   THEN <<[dir |-> Root, todo |-> iterdir(Root)]>> ELSE <<>>]
    /\ UNCHANGED <<bucketVars, setupVars, extraVars, objects, tree, budget>>

Top == run.stack[Len(run.stack)]
SetTodo(stack, todo) == [stack EXCEPT ![Len(stack)].todo = todo]

\* handle_directory: the next entry p of the directory is a directory;
\* handle_directory(p) is entered.
HandleDirectory ==
    /\ run.pc = "walk"
    /\ \E p \in Top.todo :
        /\ is_dir(p)
        /\ run' = [run EXCEPT !.stack = Append(SetTodo(@, Top.todo \ {p}),
                                               [dir |-> p, todo |-> iterdir(p)])]
    /\ UNCHANGED <<bucketVars, setupVars, extraVars, objects, manifest, tree, budget>>

\* handle_directory: the next entry p of the directory is a regular file;
\* upload_file(bucket, str(p), str(p.relative_to(root))) skips it, uploads
\* it, or raises what the transfer raises.
HandleFile ==
    /\ run.pc = "walk"
    /\ \E p \in Top.todo :
        /\ is_file(p)
        /\ LET key == relative_to(p, Root)
               d == upload_file(manifest, tree[p].data, key)
           IN  \/ /\ d.skip
                  /\ run' = [run EXCEPT !.stack = SetTodo(@, Top.todo \ {p}),
                                        !.calls = Append(@, [key |-> key, did |-> "skip"])]
                  /\ UNCHANGED objects
               \/ /\ ~d.skip
                  /\ run' = [run EXCEPT !.stack = SetTodo(@, Top.todo \ {p}),
                                        !.calls = Append(@, [key |-> key, did |-> "upload"])]
                  /\ objects' = [objects EXCEPT ![run.bucket] =
                        Put(@, key, [data |-> tree[p].data,
                                     etag |-> TransferETag(tree[p].data),
                                     content_type |-> d.content_type])]
               \/ /\ ~d.skip
                  /\ run' = [run EXCEPT !.pc = "aborted", !.stack = <<>>,
                                        !.calls = Append(@, [key |-> key, did |-> "failed"])]
                  /\ UNCHANGED objects
    /\ UNCHANGED <<bucketVars, setupVars, extraVars, manifest, tree, budget>>

\* handle_directory: the directory has no entry left; it returns, and with
\* the return of handle_directory(root) sync returns.
HandleReturn ==
    /\ run.pc = "walk"
    /\ Top.todo = {}
    /\ IF Len(run.stack) = 1
       THEN /\ run' = [run EXCEPT !.pc = "done", !.stack = <<>>]
            /\ budget' = [budget EXCEPT !.settled = run.bucket]
       ELSE /\ run' = [run EXCEPT !.stack = SubSeq(@, 1, Len(@) - 1)]
            /\ UNCHANGED budget
    /\ UNCHANGED <<bucketVars, setupVars, extraVars, objects, manifest, tree>>

---------------------------------------------------------------------------
(* Environment: other writers of the buckets *)

ExternalPut(name, key, data) ==
    /\ AtRest
    /\ budget.changes < MaxChanges
    /\ owner[name] = "me"
    /\ objects' = [objects EXCEPT ![name] =
            Put(@, key, [data |-> data, etag |-> PutObjectETag(data),
                         content_type |-> "binary/octet-stream"])]
    /\ objects' # objects
    /\ budget' = [budget EXCEPT !.changes = @ + 1, !.settled = NoBucket]
    /\ UNCHANGED <<bucketVars, setupVars, extraVars, manifest, tree, run>>

ExternalDelete(name, key) ==
    /\ AtRest
    /\ budget.changes < MaxChanges
    /\ key \in DOMAIN objects[name]
    /\ objects' = [objects EXCEPT ![name] = Remove(@, key)]
    /\ budget' = [budget EXCEPT !.changes = @ + 1, !.settled = NoBucket]
    /\ UNCHANGED <<bucketVars, setupVars, extraVars, manifest, tree, run>>

---------------------------------------------------------------------------
(* Domains, hosted zones, certificates, distributions *)

\* The domains the commands are given, as their labels.
Domains == {<<"d1", "com">>, <<"www", "d1", "com">>}

\* What get_bucket_location answers for the bucket named as the domain: it
\* raises (no such bucket), or returns a LocationConstraint, None for
\* us-east-1.
Locations == {"NoSuchBucket", "None", "eu-west-1", "xx-new-1"}

\* The regions util's table of website endpoints has.
MappedRegions == {"us-east-1", "eu-west-1"}

NoZone == [id |-> 0, name |-> <<>>]
NoCert == [domain |-> <<>>, status |-> "none"]
NoTarget == [service |-> "none", id |-> 0, region |-> "none"]
NoDist == [id |-> 0, aliases |-> {}, status |-> "none", domain_name |-> NoTarget,
           cert |-> NoCert]

\* The certificates the account may hold.
CertPool == {[domain |-> <<"www", "d1", "com">>, status |-> "ISSUED"],
             [domain |-> <<"*", "d1", "com">>, status |-> "ISSUED"],
             [domain |-> <<"d1", "com">>, status |-> "PENDING_VALIDATION"]}

\* A domain with the trailing root marker, as a zone's name is.
RootName(domain) == Append(domain, ".")

\* domain_manager.find_hosted_zone(domain): the zone whose name is the
\* domain with the trailing root marker, or None.
find_hosted_zone(domain) ==
    IF \E z \in zones : z.name = RootName(domain)
    THEN CHOOSE z \in zones : z.name = RootName(domain)
    ELSE NoZone

\* domain_manager.create_hosted_zone(domain): a new zone for the domain
\* string passed.
create_hosted_zone(domain) == [id |-> Cardinality(zones) + 1, name |-> RootName(domain)]

\* The record set of a zone after an upsert of the A/alias record of a
\* name: an existing record of that name and type is replaced.
upsert(zone, domain, target) ==
    {r \in records : ~(r.zone = zone.id /\ r.name = RootName(domain) /\ r.type = "A")}
        \cup {[zone |-> zone.id, name |-> RootName(domain), type |-> "A",
               target |-> target]}

\* cert_manager.find_matching_cert(domain): an issued certificate for the
\* domain, else an issued wildcard certificate one level above it, else None.
find_matching_cert(domain) ==
    LET issued == {c \in certs : c.status = "ISSUED"}
        exact == {c \in issued : c.domain = domain}
        wildcard == {c \in issued : c.domain = <<"*">> \o Tail(domain)}
    IN  IF exact # {} THEN CHOOSE c \in exact : TRUE
        ELSE IF wildcard # {} THEN CHOOSE c \in wildcard : TRUE
        ELSE NoCert

\* find_matching_dist scanning the deployed distributions only.
find_matching_dist_deployed(domain) ==
    LET found == {i \in 1 .. Len(dists) :
                     domain \in dists[i].aliases /\ dists[i].status = "Deployed"}
    IN  IF found = {} THEN NoDist
        ELSE dists[CHOOSE i \in found : \A j \in found : i <= j]

\* dist_manager.find_matching_dist(domain): the first distribution whose
\* alias set contains the domain, or None.
find_matching_dist(domain) ==
    LET found == {i \in 1 .. Len(dists) : domain \in dists[i].aliases}
    IN  IF found = {} THEN NoDist
        ELSE dists[CHOOSE i \in found : \A j \in found : i <= j]

\* dist_manager.create_dist(domain, cert): the new distribution, in
\* progress, with the domain name the provider assigns to it.
create_dist(domain, cert) ==
    [id |-> Len(dists) + 1, aliases |-> {domain}, status |-> "InProgress",
     domain_name |-> [service |-> "cloudfront", id |-> Len(dists) + 1, region |-> "none"],
     cert |-> cert]

\* bucket_location["LocationConstraint"] or 'us-east-1'
get_region_name(location) == IF location = "None" THEN "us-east-1" ELSE location

\* util.get_endpoint(region): the website endpoint of a region of the table.
get_endpoint(region) == [service |-> "s3-website", id |-> 0, region |-> region]

\* The exit code of the process: 0 when the command's function returns,
\* 1 when an exception or an interrupt ends it.
ExitCode(how) == IF how = "return" THEN 0 ELSE 1

---------------------------------------------------------------------------
(* webotron: setup-domain, setup-cdn *)

\* The command's record: where it is (pc), its function (cmd) and argument
\* (domain), the locals found, dist, cert, zone and endpoint, the answer
\* of get_bucket_location for this run (location), how it ended (outcome,
\* exit), the number of commands started (n) and, as history, the calls
\* made (calls), the result of the zone lookup (zone_found) and the
\* provider's state when the command started (before).
IdleOp == [pc |-> "idle", cmd |-> "none", domain |-> <<>>, found |-> NoDist,
           dist |-> NoDist, cert |-> NoCert, zone |-> NoZone, zone_found |-> NoZone,
           endpoint |-> NoTarget, location |-> "None", outcome |-> "none",
           exit |-> 0, n |-> 0, calls |-> <<>>,
           before |-> [zones |-> {}, records |-> {}, dists |-> <<>>]]

Started(name, domain, location, first) ==
    [IdleOp EXCEPT !.pc = first, !.cmd = name, !.domain = domain,
                   !.location = location, !.outcome = "running", !.n = op.n + 1,
                   !.before = [zones |-> zones, records |-> records, dists |-> dists]]

\* if not dist: always true.
AfterFindDist_always_create(dist) == "find_matching_cert"

\* dist = find_matching_dist(domain); if not dist: ...
AfterFindDist(dist) ==
    IF dist = NoDist THEN "find_matching_cert" ELSE "find_hosted_zone"

\* if not cert: never true.
AfterFindCert_optional(cert) == "create_dist"

\* cert = find_matching_cert(domain); if not cert: print(...); return
AfterFindCert(cert) == IF cert = NoCert THEN "exit" ELSE "create_dist"

\* find_hosted_zone(domain) or create_hosted_zone(domain), always creating.
NeedsZone_always(zone) == TRUE

\* find_hosted_zone(domain) or create_hosted_zone(domain): the right side
\* is evaluated when the left one is None.
NeedsZone(zone) == zone = NoZone

\* The record's target is the distribution's origin.
RecordTarget_origin(dist) == get_endpoint("us-east-1")

\* create_cf_domain_record(zone, domain, dist['DomainName'])
RecordTarget(dist) == dist.domain_name

\* setup_cdn(domain, bucket) is entered.
SetupCdnBegin(domain) ==
    /\ op.pc \in {"idle", "exit"}
    /\ op.n < MaxCmds
    /\ op' = Started("setup_cdn", domain, "None", "find_matching_dist")
    /\ UNCHANGED <<bucketVars, setupVars, syncVars, hashVars, zones, records, dists, certs>>

\* dist = dist_manager.find_matching_dist(domain)
CdnFindDist ==
    /\ op.pc = "find_matching_dist"
    /\ LET dist == find_matching_dist(op.domain)
       IN  op' = [op EXCEPT !.pc = AfterFindDist(dist), !.found = dist, !.dist = dist,
                            !.calls = Append(@, "find_matching_dist")]
    /\ UNCHANGED <<bucketVars, setupVars, syncVars, hashVars, zones, records, dists, certs>>

\* cert = cert_manager.find_matching_cert(domain); without one the command
\* prints the error and returns.
CdnFindCert ==
    /\ op.pc = "find_matching_cert"
    /\ LET cert == find_matching_cert(op.domain)
       IN  op' = [op EXCEPT !.pc = AfterFindCert(cert), !.cert = cert,
                            !.calls = Append(@, "find_matching_cert"),
                            !.outcome = IF AfterFindCert(cert) = "exit"
                                        THEN "no_cert" ELSE @,
                            !.exit = IF AfterFindCert(cert) = "exit"
                                     THEN ExitCode("return") ELSE @]
    /\ UNCHANGED <<bucketVars, setupVars, syncVars, hashVars, zones, records, dists, certs>>

\* dist = dist_manager.create_dist(domain, cert)
CdnCreateDist ==
    /\ op.pc = "create_dist"
    /\ dists' = Append(dists, create_dist(op.domain, op.cert))
    /\ op' = [op EXCEPT !.pc = "await_deploy", !.dist = create_dist(op.domain, op.cert),
                        !.calls = Append(@, "create_dist")]
    /\ UNCHANGED <<bucketVars, setupVars, syncVars, hashVars, zones, records, certs>>

\* dist_manager.await_deploy(dist) returns: the distribution is deployed.
CdnAwaitDeploy ==
    /\ op.pc = "await_deploy"
    /\ dists[op.dist.id].status = "Deployed"
    /\ op' = [op EXCEPT !.pc = "find_hosted_zone", !.calls = Append(@, "await_deploy")]
    /\ UNCHANGED <<bucketVars, setupVars, syncVars, hashVars, zones, records, dists, certs>>

\* The process is interrupted while await_deploy waits.
Interrupt ==
    /\ op.pc = "await_deploy"
    /\ op' = [op EXCEPT !.pc = "exit", !.outcome = "interrupted",
                        !.exit = ExitCode("raise")]
    /\ UNCHANGED <<bucketVars, setupVars, syncVars, hashVars, zones, records, dists, certs>>

\* zone = find_hosted_zone(domain) or create_hosted_zone(domain), in
\* setup_domain and in setup_cdn.
FindOrCreateZone ==
    /\ op.pc = "find_hosted_zone"
    /\ LET zone == find_hosted_zone(op.domain)
       IN  IF NeedsZone(zone)
           THEN /\ zones' = zones \cup {create_hosted_zone(op.domain)}
                /\ op' = [op EXCEPT
                            !.pc = IF op.cmd = "setup_cdn" THEN "create_cf_domain_record"
                                   ELSE "get_endpoint",
                            !.zone_found = zone,
                            !.zone = create_hosted_zone(op.domain),
                            !.calls = @ \o <<"find_hosted_zone", "create_hosted_zone">>]
           ELSE /\ UNCHANGED zones
                /\ op' = [op EXCEPT
                            !.pc = IF op.cmd = "setup_cdn" THEN "create_cf_domain_record"
                                   ELSE "get_endpoint",
                            !.zone_found = zone,
                            !.zone = zone,
                            !.calls = Append(@, "find_hosted_zone")]
    /\ UNCHANGED <<bucketVars, setupVars, syncVars, hashVars, records, dists, certs>>

\* domain_manager.create_cf_domain_record(zone, domain, dist['DomainName']);
\* the command returns.
CdnCreateRecord ==
    /\ op.pc = "create_cf_domain_record"
    /\ records' = upsert(op.zone, op.domain, RecordTarget(op.dist))
    /\ op' = [op EXCEPT !.pc = "exit", !.outcome = "ok", !.exit = ExitCode("return"),
                        !.calls = Append(@, "create_cf_domain_record")]
    /\ UNCHANGED <<bucketVars, setupVars, syncVars, hashVars, zones, dists, certs>>

\* setup_domain(domain) is entered; bucket = bucket_manager.get_bucket(domain)
\* makes no request.
SetupDomainBegin(domain, location) ==
    /\ op.pc \in {"idle", "exit"}
    /\ op.n < MaxCmds
    /\ op' = Started("setup_domain", domain, location, "find_hosted_zone")
    /\ UNCHANGED <<bucketVars, setupVars, syncVars, hashVars, zones, records, dists, certs>>

\* endpoint = util.get_endpoint(bucket_manager.get_region_name(bucket)):
\* get_bucket_location raises for a bucket that does not exist, get_endpoint
\* for a region its table does not have.
DomainGetEndpoint ==
    /\ op.pc = "get_endpoint"
    /\ IF op.location = "NoSuchBucket"
       THEN op' = [op EXCEPT !.pc = "exit", !.outcome = "NoSuchBucket",
                             !.exit = ExitCode("raise"),
                             !.calls = Append(@, "get_bucket_location")]
       ELSE IF get_region_name(op.location) \notin MappedRegions
       THEN op' = [op EXCEPT !.pc = "exit", !.outcome = "UnsupportedRegion",
                             !.exit = ExitCode("raise"),
                             !.calls = Append(@, "get_bucket_location")]
       ELSE op' = [op EXCEPT !.pc = "create_s3_domain_record",
                             !.endpoint = get_endpoint(get_region_name(op.location)),
                             !.calls = Append(@, "get_bucket_location")]
    /\ UNCHANGED <<bucketVars, setupVars, syncVars, hashVars, zones, records, dists, certs>>

\* a_record = domain_manager.create_s3_domain_record(zone, domain, endpoint);
\* the command returns.
DomainCreateRecord ==
    /\ op.pc = "create_s3_domain_record"
    /\ records' = upsert(op.zone, op.domain, op.endpoint)
    /\ op' = [op EXCEPT !.pc = "exit", !.outcome = "ok", !.exit = ExitCode("return"),
                        !.calls = Append(@, "create_s3_domain_record")]
    /\ UNCHANGED <<bucketVars, setupVars, syncVars, hashVars, zones, dists, certs>>

---------------------------------------------------------------------------
(* Environment: the CDN provider and the certificate service *)

\* The provider finishes the deployment of distribution i.
Deploy(i) ==
    /\ i \in 1 .. Len(dists)
    /\ dists[i].status = "InProgress"
    /\ dists' = [dists EXCEPT ![i].status = "Deployed"]
    /\ UNCHANGED <<bucketVars, setupVars, syncVars, hashVars, zones, records, certs, op>>

\* A certificate of the pool is issued to the account between two commands.
IssueCert(c) ==
    /\ op.pc \in {"idle", "exit"}
    /\ c \notin certs
    /\ certs' = certs \cup {c}
    /\ UNCHANGED <<bucketVars, setupVars, syncVars, hashVars, zones, records, dists, op>>

---------------------------------------------------------------------------
(* Specifications *)

NoSetupState ==
    /\ cmd = [pc |-> "idle"]
    /\ created = [b \in BucketNames |-> 0]

NoHashState ==
    hasher = [content |-> <<>>, etag |-> NotComputed,
              before |-> <<>>, etagBefore |-> NotComputed]

NoCdnState ==
    /\ zones = {}
    /\ records = {}
    /\ dists = <<>>
    /\ certs = {}
    /\ op = IdleOp

NoSyncState ==
    /\ objects = [b \in BucketNames |-> <<>>]
    /\ manifest = <<>>
    /\ tree = [p \in Paths |-> NoNode]
    /\ run = IdleRun
    /\ budget = [syncs |-> 0, changes |-> 0, settled |-> NoBucket]

InitSetup ==
    /\ owner \in [BucketNames -> {"none", "me", "other"}]
    /\ policy \in [BucketNames -> BOOLEAN]
    /\ website \in [BucketNames -> BOOLEAN]
    /\ \A b \in BucketNames : owner[b] = "none" => ~policy[b] /\ ~website[b]
    /\ cmd = IdleCmd
    /\ created = [b \in BucketNames |-> 0]
    /\ NoSyncState
    /\ NoHashState
    /\ NoCdnState

NextSetup ==
    \/ \E name \in BucketNames : SetupBucketBegin(name)
    \/ SetupInitBucket
    \/ set_policy
    \/ configure_website

SpecSetup == InitSetup /\ [][NextSetup]_vars

\* The buckets b1 and b2 have been set up and are empty; b3 does not exist.
InitSync ==
    /\ owner = [b \in BucketNames |-> IF b = "b3" THEN "none" ELSE "me"]
    /\ policy = [b \in BucketNames |-> b # "b3"]
    /\ website = [b \in BucketNames |-> b # "b3"]
    /\ NoSetupState
    /\ objects = [b \in BucketNames |-> <<>>]
    /\ manifest = <<>>
    /\ tree \in Trees
    /\ run = IdleRun
    /\ budget = [syncs |-> 0, changes |-> 0, settled |-> NoBucket]
    /\ NoHashState
    /\ NoCdnState

NextSync ==
    \/ cli
    \/ \E b \in BucketNames : SyncBegin(b)
    \/ LoadManifestPage
    \/ HandleDirectory
    \/ HandleFile
    \/ HandleReturn
    \/ \E b \in BucketNames, k \in ExternalKeys, c \in ExternalContents : ExternalPut(b, k, c)
    \/ \E b \in BucketNames, k \in ExternalKeys : ExternalDelete(b, k)

SpecSync == InitSync /\ [][NextSync]_vars

\* gen_etag on any file of at most MaxLen bytes, and on the file edited.
InitHash ==
    /\ owner = [b \in BucketNames |-> "none"]
    /\ policy = [b \in BucketNames |-> FALSE]
    /\ website = [b \in BucketNames |-> FALSE]
    /\ NoSetupState
    /\ NoSyncState
    /\ NoCdnState
    /\ \E c \in Contents :
          hasher = [content |-> c, etag |-> NotComputed,
                    before |-> c, etagBefore |-> NotComputed]

NextHash ==
    \/ Hash
    \/ \E b \in 0 .. MaxByte : AppendByte(b)
    \/ Truncate
    \/ \E i \in 1 .. MaxLen, b \in 0 .. MaxByte : ChangeByte(i, b)

SpecHash == InitHash /\ [][NextHash]_vars

\* setup-domain and setup-cdn on an account with any certificates of the
\* pool and with or without a hosted zone for d1.com.
InitCdn ==
    /\ owner = [b \in BucketNames |-> "none"]
    /\ policy = [b \in BucketNames |-> FALSE]
    /\ website = [b \in BucketNames |-> FALSE]
    /\ NoSetupState
    /\ NoSyncState
    /\ NoHashState
    /\ zones \in {{}, {[id |-> 1, name |-> RootName(<<"d1", "com">>)]}}
    /\ records = {}
    /\ dists = <<>>
    /\ certs \in SUBSET CertPool
    /\ op = IdleOp

NextCdn ==
    \/ \E d \in Domains : SetupCdnBegin(d)
    \/ CdnFindDist
    \/ CdnFindCert
    \/ CdnCreateDist
    \/ CdnAwaitDeploy
    \/ Interrupt
    \/ FindOrCreateZone
    \/ CdnCreateRecord
    \/ \E d \in Domains, l \in Locations : SetupDomainBegin(d, l)
    \/ DomainGetEndpoint
    \/ DomainCreateRecord
    \/ \E i \in 1 .. MaxCmds : Deploy(i)
    \/ \E c \in CertPool : IssueCert(c)

SpecCdn == InitCdn /\ [][NextCdn]_vars


---------------------------------------------------------------------------
(* Claims about setup-bucket (SpecSetup) *)

FullSetup == <<"create_bucket", "put_policy", "put_website">>

Configured(name) == owner[name] = "me" /\ policy[name] /\ website[name]

\* C1: a setup-bucket run whose create step succeeds or hits the 'already
\* owned' conflict applies the policy and then the website configuration,
\* so that at its end the bucket exists, is public-read and website-enabled.
\* The code does not do this when the create call succeeds.
C1_SetupConfiguresBucket ==
    (cmd.pc = "exit" /\ cmd.answer \in {"Created", "BucketAlreadyOwnedByYou"})
        => (cmd.calls = FullSetup /\ cmd.outcome = "ok" /\ Configured(cmd.name))

\* C2: init_bucket returns a bucket handle for the name both when the
\* create call succeeds and when it is rejected with BucketAlreadyOwnedByYou.
\* The code returns no value when the create call succeeds.
C2_InitBucketReturnsBucket ==
    (cmd.answer \in {"Created", "BucketAlreadyOwnedByYou"}) => cmd.bucket = cmd.name

\* C3: the second of two setup-bucket runs in a row on the same name (a
\* name not owned by someone else) hits the 'already owned' conflict, ends
\* without an error with policy and website configuration applied, and the
\* two runs have created the bucket at most once: one bucket of that name
\* exists.
C3_SecondRunSucceeds ==
    (cmd.pc = "exit" /\ cmd.runNo >= 2 /\ cmd.prevName = cmd.name
        /\ owner[cmd.name] # "other")
        => /\ cmd.answer = "BucketAlreadyOwnedByYou"
           /\ cmd.outcome = "ok"
           /\ cmd.calls = FullSetup
           /\ Configured(cmd.name)
           /\ created[cmd.name] <= 1

\* C3 witness: the first run created the bucket (and ended in an error),
\* the second run on the same name has ended.
C3_Witness ==
    /\ cmd.pc = "exit" /\ cmd.runNo = 2 /\ cmd.prevName = cmd.name
    /\ created[cmd.name] = 1 /\ cmd.prevOutcome = "error" /\ cmd.outcome = "ok"

\* C4: when the create call is rejected with an error other than
\* BucketAlreadyOwnedByYou, init_bucket raises it and the command ends in
\* an error having issued no other provider call: policy and website state
\* of every bucket are as they were when the command began.
C4_FatalCreateChangesNothing ==
    (cmd.answer \notin {"", "Created", "BucketAlreadyOwnedByYou"})
        => /\ cmd.pc = "exit"
           /\ cmd.outcome = "error"
           /\ cmd.bucket = NoBucket
           /\ cmd.calls = <<"create_bucket">>
           /\ policy = cmd.policy0
           /\ website = cmd.website0

\* C4 witness: a run on a name owned by someone else has ended.
C4_Witness ==
    /\ cmd.pc = "exit" /\ cmd.answer = "BucketAlreadyExists"
    /\ owner[cmd.name] = "other"

---------------------------------------------------------------------------
(* Claims about sync (SpecSync) *)

\* The key a local path is to be stored under: its path relative to the
\* root, with forward slashes.
RelativePath(p) ==
    CASE p = Root \o <<"a.html">> -> "a.html"
      [] p = Root \o <<"s">> -> "s"
      [] p = Root \o <<"s", "b.css">> -> "s/b.css"

LocalFiles == {p \in Paths : tree[p].kind = "file"}
LocalKeys == {RelativePath(p) : p \in LocalFiles}
LocalFingerprint(k) == gen_etag(tree[CHOOSE p \in LocalFiles : RelativePath(p) = k].data)

Calls == {run.calls[i] : i \in 1 .. Len(run.calls)}
CallsOn(k) == {i \in 1 .. Len(run.calls) : run.calls[i].key = k}
Walking == run.pc \in {"walk", "done", "aborted"}

\* C5: upload_file skips the upload if and only if the manifest has an
\* entry for the key that equals the local fingerprint; it uploads in every
\* other case, also when the key is absent from the manifest.
C5_SkipIffManifestEqual ==
    Walking =>
        \A c \in Calls :
            /\ c.key \in LocalKeys
            /\ (c.did = "skip") <=>
                   (c.key \in DOMAIN manifest /\ manifest[c.key] = LocalFingerprint(c.key))

\* C5 witness: one sync call has skipped a file whose entry matches and
\* uploaded a file whose entry differs.
C5_Witness ==
    /\ run.pc = "done"
    /\ \E c \in Calls : c.did = "skip"
    /\ \E c \in Calls : c.did = "upload" /\ c.key \in DOMAIN manifest

\* C6: a sync call that returns has considered every regular file below
\* the root exactly once and nothing else, and has uploaded exactly the
\* files whose fingerprint differs from, or is missing in, what the
\* listing of the target bucket returned in this call.
\* The code decides on self.manifest, which also holds the entries of
\* earlier sync calls of the same BucketManager (C10).
C6_UploadsExactlyChanged ==
    run.pc = "done" =>
        /\ \A c \in Calls : c.key \in LocalKeys
        /\ \A k \in LocalKeys : Cardinality(CallsOn(k)) = 1
        /\ {c.key : c \in {x \in Calls : x.did = "upload"}}
             = {k \in LocalKeys : k \notin DOMAIN run.listed
                                    \/ run.listed[k] # LocalFingerprint(k)}

\* C7: a sync call that repeats a completed sync of the same bucket, with
\* the local tree and the bucket unchanged in between, uploads no file.
\* The code uploads every empty file again: gen_etag returns None for it,
\* which equals no ETag.
C7_RepeatedSyncUploadsNothing ==
    (Walking /\ run.repeat) => \A c \in Calls : c.did = "skip"

\* C8: when the upload of one file fails, sync still processes every other
\* regular file of the tree.  The code lets the exception end the walk.
C8_FailureDoesNotStopWalk ==
    (AtRest /\ \E c \in Calls : c.did = "failed")
        => \A k \in LocalKeys : CallsOn(k) # {}

\* C9: a step of sync adds or overwrites only objects of the target bucket
\* whose key is the relative path of a local file; every other object of
\* every bucket stays as it is, and no object is deleted.
C9_SyncTouchesOnlyLocalKeys ==
    [][run' # run =>
        \A b \in BucketNames :
            /\ DOMAIN objects[b] \subseteq DOMAIN objects'[b]
            /\ \A k \in DOMAIN objects'[b] :
                  (k \notin DOMAIN objects[b] \/ objects'[b][k] # objects[b][k])
                      => (b = run.bucket /\ k \in LocalKeys)]_vars

\* C9 witness: a sync call has uploaded a file to a bucket that holds an
\* object under a key with no local file.
C9_Witness ==
    /\ run.pc = "done"
    /\ \E c \in Calls : c.did = "upload"
    /\ \E k \in DOMAIN objects[run.bucket] : k \notin LocalKeys

\* C10: when sync starts deciding uploads, the manifest holds exactly the
\* key -> fingerprint pairs the listing of the target bucket returned in
\* this call.  The code never empties self.manifest: the entries of an
\* earlier sync call of the same BucketManager stay.
C10_ManifestIsThisCallsListing ==
    run.pc = "walk" => manifest = run.listed

---------------------------------------------------------------------------
(* Claims about gen_etag (SpecHash) *)

\* ceil(L / CHUNK_SIZE)
NChunks(L) == (L + CHUNK_SIZE - 1) \div CHUNK_SIZE

\* The i-th chunk of a content, in file order.
ChunkAt(content, i) ==
    SubSeq(content, (i - 1) * CHUNK_SIZE + 1, Min(i * CHUNK_SIZE, Len(content)))

\* The fingerprint the chunked-hash convention gives a non-empty content.
ConventionETag(content) ==
    LET n == NChunks(Len(content))
    IN  IF n = 1 THEN QuotedHex(hexdigest(hash_data(ChunkAt(content, 1))))
        ELSE QuotedHexParts(
                 hexdigest(hash_data(ConcatAll(
                     [i \in 1 .. n |-> digest(hash_data(ChunkAt(content, i)))]))),
                 n)

\* C11: for a file of L > 0 bytes gen_etag hashes the ceil(L / CHUNK_SIZE)
\* chunks in file order; one chunk gives the quoted hex digest of the chunk
\* without suffix, n > 1 chunks give the quoted hex digest of the hash of
\* the n raw digests concatenated in order, with the suffix -n.  A file of
\* exactly CHUNK_SIZE bytes has no suffix, a file of CHUNK_SIZE + 1 bytes
\* has the suffix -2.
C11_ETagFollowsConvention ==
    (hasher.etag # NotComputed /\ Len(hasher.content) > 0)
        => /\ hasher.etag = ConventionETag(hasher.content)
           /\ hasher.etag.kind = "etag"
           /\ hasher.etag.parts =
                  (IF Len(hasher.content) <= CHUNK_SIZE THEN 0
                   ELSE NChunks(Len(hasher.content)))
           /\ Len(hasher.content) = CHUNK_SIZE => hasher.etag.parts = 0
           /\ Len(hasher.content) = CHUNK_SIZE + 1 => hasher.etag.parts = 2

\* C11 witness: a file of exactly CHUNK_SIZE bytes was hashed, a byte was
\* appended to it and the file was hashed again.
C11_Witness ==
    /\ hasher.etag # NotComputed /\ hasher.etagBefore # NotComputed
    /\ Len(hasher.before) = CHUNK_SIZE
    /\ Len(hasher.content) = CHUNK_SIZE + 1
    /\ hasher.etagBefore.parts = 0 /\ hasher.etag.parts = 2

\* C12: for an empty file computing the fingerprint fails (NotHashable),
\* so upload_file takes no decision for it: no call of upload_file on an
\* empty file ends in a skip or in an upload.
\* The code returns None from gen_etag without an error, and upload_file
\* compares None with the manifest's entry and uploads.
C12_NoDecisionWithoutFingerprint ==
    Walking => \A c \in Calls : LocalFingerprint(c.key) # PyNone

\* C20: the listing is fetched once per sync call and drained, all pages,
\* before the first upload decision, and the manifest is not modified
\* afterwards in that call: whenever the walk is under way no page is left
\* unread, exactly the pages of this call's listing have been read, each
\* once, the listing accounts for every object of the bucket that this call
\* did not upload itself, the manifest holds the listing's entries, and no
\* step of the walk changes the manifest.
Drained ==
    run.pc = "walk" =>
        /\ run.pages = <<>>
        /\ run.fetched = Len(Paginate(SelectKeys(KeyOrder, DOMAIN run.listed)))
        /\ DOMAIN objects[run.bucket] =
               DOMAIN run.listed \cup {c.key : c \in {x \in Calls : x.did = "upload"}}
        /\ \A k \in DOMAIN run.listed : k \in DOMAIN manifest /\ manifest[k] = run.listed[k]

C20_ListingDrainedBeforeWalk ==
    [][Drained' /\ (run.pc = "walk" => manifest' = manifest)]_vars

\* The walk decides on a file after a listing of two pages.
C20_Witness ==
    /\ run.pc = "walk"
    /\ run.fetched = 2
    /\ \E c \in Calls : c.did = "skip"
    /\ \E c \in Calls : c.did = "upload"

---------------------------------------------------------------------------
(* Claims: setup-domain, setup-cdn (SpecCdn) *)

Made == {op.calls[i] : i \in 1 .. Len(op.calls)}
Mutating == {"create_dist", "create_hosted_zone", "create_cf_domain_record",
             "create_s3_domain_record"}
WithAlias(ds, domain) == {i \in 1 .. Len(ds) : domain \in ds[i].aliases}
ZonesOf(domain) == {z \in zones : z.name = RootName(domain)}
ARecords(domain) == {r \in records : r.name = RootName(domain) /\ r.type = "A"}

\* C13: when setup-cdn has found no distribution for the domain and no
\* matching certificate, the command has ended and has mutated nothing: it
\* made no creating or upserting call, and the zones, the records and the
\* distributions are those of its start.
C13_NoCertNoMutation ==
    (/\ op.cmd = "setup_cdn"
     /\ "find_matching_cert" \in Made
     /\ op.found = NoDist
     /\ op.cert = NoCert)
        => /\ op.pc = "exit"
           /\ Made \cap Mutating = {}
           /\ zones = op.before.zones
           /\ records = op.before.records
           /\ Len(dists) = Len(op.before.dists)

\* setup-cdn has ended at the certificate check, on an account that holds
\* a certificate, though none that matches.
C13_Witness ==
    /\ op.cmd = "setup_cdn"
    /\ op.pc = "exit"
    /\ op.outcome = "no_cert"
    /\ certs # {}

\* C14: a command ends with exit code 0 only on success; setup-cdn that
\* ends because no certificate matches ends with a non-zero exit code.
\* The code prints the error and returns, and the process exits with 0.
C14_ExitZeroOnlyOnSuccess ==
    (op.pc = "exit" /\ op.exit = 0) => op.outcome = "ok"

\* C15: when find_matching_dist returns a distribution, setup-cdn neither
\* looks up a certificate nor creates a distribution, and goes on with the
\* distribution found: the record it upserts has that one's domain name.
C15_FoundDistIsReused ==
    (op.cmd = "setup_cdn" /\ op.found # NoDist)
        => /\ "find_matching_cert" \notin Made
           /\ "create_dist" \notin Made
           /\ Len(dists) = Len(op.before.dists)
           /\ op.dist = op.found
           /\ op.outcome = "ok"
                => \A r \in ARecords(op.domain) :
                      r.zone = op.zone.id => r.target = op.found.domain_name

\* setup-cdn has ended well with a distribution that it found.
C15_Witness ==
    /\ op.cmd = "setup_cdn"
    /\ op.found # NoDist
    /\ op.outcome = "ok"
    /\ Len(dists) = 1

\* C16: whatever setup-cdn runs there were for a domain, ended at the
\* certificate check or interrupted in the wait and run again, at most one
\* distribution has the domain among its aliases.
C16_OneDistPerDomain ==
    \A d \in Domains : Cardinality(WithAlias(dists, d)) <= 1

\* setup-cdn has ended well for a domain whose distribution an earlier,
\* interrupted run had left in progress.
C16_Witness ==
    /\ op.cmd = "setup_cdn"
    /\ op.outcome = "ok"
    /\ \E i \in WithAlias(op.before.dists, op.domain) :
          op.before.dists[i].status = "InProgress"
    /\ Cardinality(WithAlias(dists, op.domain)) = 1

\* C17: a re-run of setup-cdn after an interrupted wait waits for the
\* distribution it finds in progress before it upserts the record: no
\* record points at a distribution that is still InProgress.
\* The code calls await_deploy only for a distribution it has created.
C17_RecordOnlyOnDeployed ==
    \A r \in records :
        r.target.service = "cloudfront" => dists[r.target.id].status = "Deployed"

\* C18: after setup-cdn has ended without error for a domain, the zone
\* holds exactly one A record for the domain, and its target is the domain
\* name of the domain's distribution.
C18_OneRecordAtDistribution ==
    (op.cmd = "setup_cdn" /\ op.pc = "exit" /\ op.outcome = "ok")
        => /\ Cardinality({r \in ARecords(op.domain) : r.zone = op.zone.id}) = 1
           /\ \A r \in ARecords(op.domain) :
                 /\ r.target.service = "cloudfront"
                 /\ r.target.id \in WithAlias(dists, op.domain)
                 /\ r.target = dists[r.target.id].domain_name

\* setup-cdn has ended well where setup-domain had left the domain's
\* record at the bucket's website endpoint.
C18_Witness ==
    /\ op.cmd = "setup_cdn"
    /\ op.pc = "exit"
    /\ op.outcome = "ok"
    /\ \E r \in op.before.records :
          /\ r.name = RootName(op.domain)
          /\ r.zone = op.zone.id
          /\ r.target.service = "s3-website"

\* C19: setup-domain and setup-cdn call create_hosted_zone only when
\* find_hosted_zone has returned none; at most one hosted zone exists for
\* a domain, and the domain's record is upserted in that zone.
C19_ZoneCreatedOnlyWhenAbsent ==
    /\ "create_hosted_zone" \in Made => op.zone_found = NoZone
    /\ \A d \in Domains :
          /\ Cardinality(ZonesOf(d)) <= 1
          /\ \A r \in ARecords(d) : \E z \in ZonesOf(d) : r.zone = z.id

\* A command has ended well with the zone that an earlier command created.
C19_Witness ==
    /\ op.pc = "exit"
    /\ op.outcome = "ok"
    /\ op.zone_found # NoZone
    /\ op.zone_found \notin {[id |-> 1, name |-> RootName(<<"d1", "com">>)]}
    /\ "create_hosted_zone" \notin Made

===========================================================================
